---- MODULE Spec2Model ----
(***************************************************************************)
(* A model of the MCP protocol engine of demo-mcp-server-client:           *)
(*   - the JSON-RPC MCPServer (receive loop, lifecycle gate, dispatch,     *)
(*     tool registry) over a StdioConnection,                              *)
(*   - the MCPClient request/response path over a StdioConnection,         *)
(*   - the MCPHost tool-call loops (chat and chatWithRequest),             *)
(*   - the initialize sequence of the Ruby client (client.rb),             *)
(*   - the tool registry of MCPServer called directly,                     *)
(*   - the conversation history of the NaturalLanguageCLI,                 *)
(*   - the request ids of the typescript MCPClient,                        *)
(*   - start() called again while the earlier receive loop is alive.       *)
(* One JavaScript macrotask (a line event, a timer, a resolved tool        *)
(* promise, an API call of the embedding program) is one action.           *)
(***************************************************************************)
EXTENDS Integers, Sequences, FiniteSets, TLC

\* ----------------------------------------------------------------- bounds
MaxQueue == 1      \* lines buffered in the server's StdioConnection queue
MaxTimers == 1     \* pending setTimeout(stop) timers
MaxDef == 1        \* distinct tool definitions registered under one name
MaxCallers == 2    \* concurrent callers of the MCPClient
MaxRequests == 3   \* Requests one MCPClient sends
MaxBatch == 2      \* tool calls one reply of the backend requests
MaxPipe == 2       \* lines buffered in the pipe from the server to the Ruby client
MaxRegDef == 2     \* distinct tool definitions the embedding program registers
MaxList == 2       \* tools/list Requests one session of the MCPHost issues
MaxCliHistory == 8 \* messages in the history of the NaturalLanguageCLI
MaxClock == 2      \* milliseconds Date.now() advances by
MaxRandom == 2     \* values Math.floor(Math.random() * 1000) takes
MaxTsRequests == 3 \* Requests the typescript MCPClient sends

\* ------------------------------------------------------ program constants
ParseError == -32700
InvalidRequest == -32600
MethodNotFound == -32601
InvalidParams == -32602
InternalError == -32603
ToolNotFound == -32000
ToolExecutionError == -32001
InvalidToolInput == -32002
maxToolCalls == 10

\* --------------------------------------------------------------- messages
NoId == 0                        \* the id field is absent (or null)
NoName == "<none>"               \* params.name is absent
NoMethod == "<none>"             \* the method field is absent
ToolNames == {"dice", "current_time"}
NoArgs == <<>>                   \* params.args absent: {}
ConnKinds == {"wip", "ts"}

Methods ==
  {"initialize", "ping", "tools/list", "tools/call", "shutdown",
   "notifications/initialized", "foo"}

\* A line on the wire: text is what JSON.parse makes of it, the other fields
\* are the members of the parsed object.
Line(text, ver, method, id, name, args) ==
  [text |-> text, ver |-> ver, method |-> method, id |-> id,
   name |-> name, args |-> args]

MalformedLines ==
  {Line("empty", "2.0", NoMethod, NoId, NoName, NoArgs),
   Line("garbage", "2.0", NoMethod, NoId, NoName, NoArgs),
   Line("object", "1.0", "ping", 1, NoName, NoArgs),
   Line("object", "2.0", NoMethod, NoId, NoName, NoArgs)}

PlainLines ==
  {Line("object", "2.0", m, 1, NoName, NoArgs) : m \in Methods \ {"tools/call"}}
  \cup {Line("object", "2.0", m, NoId, NoName, NoArgs) :
          m \in {"notifications/initialized", "tools/list"}}

CallLines ==
  {Line("object", "2.0", "tools/call", 1, n, NoArgs) :
     n \in {NoName, "dice", "nonexistent"}}
  \cup {Line("object", "2.0", "tools/call", 2, "dice", <<s>>) : s \in {6, -5}}
  \cup {Line("object", "2.0", "tools/call", NoId, "dice", NoArgs)}

Lines == MalformedLines \cup PlainLines \cup CallLines

NoLine == Line("none", "2.0", NoMethod, NoId, NoName, NoArgs)

\* A Response line written by the server.
\* body is result (or error.message), data is error.data, sides is the
\* number of sides in the output of the dice tool (0: no such output).
NoData == "<none>"               \* error.data is absent
Resp(id, kind, code, body, list, def, data, sides) ==
  [id |-> id, kind |-> kind, code |-> code, body |-> body,
   list |-> list, def |-> def, data |-> data, sides |-> sides]

NoResp == Resp(NoId, "none", 0, "", {}, 0, NoData, 0)

createSuccessResponse(id, body, list, def) ==
  Resp(id, "result", 0, body, list, def, NoData, 0)

\* error.data is set only when the data argument is given.
createErrorResponse(id, code, message, data) ==
  Resp(id, "error", code, message, {}, 0, data, 0)

\* A line read by the client: a Response with its id, the '' with which the
\* wip close() resolves a pending receive(), or nothing.
CLine(id, kind, code, data) ==
  [id |-> id, kind |-> kind, code |-> code, data |-> data]
ClosedLine == CLine(NoId, "closed", 0, NoData)
NoCLine == CLine(NoId, "none", 0, NoData)

\* The Response lines a server writes for the Request id: a result, an
\* error, an error with data.
ResponseLines(id) ==
  {CLine(id, "result", 0, NoData),
   CLine(id, "error", ToolNotFound, NoData),
   CLine(id, "error", InvalidToolInput, "errors")}

Callers == 1..MaxCallers

\* st: idle, waiting (suspended in receive), ok (returned), failed (threw);
\* id: the id of the Request sent; got: the line receive() returned.
Call(st, op, id, got) == [st |-> st, op |-> op, id |-> id, got |-> got]
IdleCall == Call("idle", "none", NoId, NoCLine)

\* A direct call of the tool registry: the arguments of the call, the Error
\* it threw (error), the definition whose handler it ran (ran), what that
\* handler raised (raised) and the list it returned.
RegCall(op, name, def, override, args, error, ran, raised, list) ==
  [op |-> op, name |-> name, def |-> def, override |-> override,
   args |-> args, error |-> error, ran |-> ran, raised |-> raised,
   list |-> list]
NoRegCall == RegCall("none", NoName, 0, FALSE, NoArgs, "", 0, "", {})

\* A message of the conversation history: its role, which reply of the
\* turn it holds (assistant) and how many outcome entries it lists (the
\* tool result message).
Message(role, reply, entries) ==
  [role |-> role, reply |-> reply, entries |-> entries]

\* A message of the history of the CLI.
ChatMessage(role, content) == [role |-> role, content |-> content]

\* ------------------------------------------------------------------ state
VARIABLES
  connKind,     \* which StdioConnection implementation carries the Channel
  running,      \* MCPServer.running
  initialized,  \* MCPServer.initialized
  tools,        \* MCPServer.tools: name -> definition (0: not registered)
  connOpen,     \* server side StdioConnection.isOpen / connected
  queue,        \* server side StdioConnection.queue / readBuffer
  srvPc,        \* position of handleRequests
  cur,          \* the line the loop read last
  curReady,     \* initialized, as it was when the loop read cur
  wrote,        \* Response lines written since the loop read cur
  lastOut,      \* the Response line written last since the loop read cur
  execd,        \* the tool handler was invoked for cur
  execDef,      \* the definition whose handler was invoked for cur
  stopTimers,   \* pending setTimeout(() => this.stop(), 100)
  handshake,    \* what the loop has received of initialize, then initialized
  oldLoop       \* the receive loop of an earlier start(), while it is alive

srvVars ==
  <<running, initialized, tools, connOpen, queue, srvPc, cur, curReady,
    wrote, lastOut, execd, execDef, stopTimers, handshake>>

VARIABLES
  cOpen,           \* client side StdioConnection.isOpen / connected
  cBuf,            \* client side StdioConnection.queue / readBuffer
  cWait,           \* callers whose receive() is pending: the 'receive' entry
                   \* of resolveMap (wip), waitingForData (ts)
  connected,       \* MCPClient.connected
  requestCounter,  \* MCPClient.requestCounter
  inflight,        \* ids of the Requests written and not yet answered
  call             \* per caller: the client method it runs and its outcome

cliVars == <<cOpen, cBuf, cWait, connected, requestCounter, inflight, call>>

VARIABLES
  ready,            \* MCPHost.ready
  availableTools,   \* MCPHost.availableTools, by name
  hostPc,           \* position of the turn chat / chatWithRequest runs
  hMode,            \* which of chat and chatWithRequest runs the turn
  toolCallCount,    \* toolCallCount of chatWithRequest
  llmResponse,      \* the tool calls the latest reply of the backend requests
  llmCalls,         \* replies the backend has given in this turn
  toolResults,      \* per tool call of the batch: its result or error
  returned,         \* which reply of the turn was returned (0: none yet)
  everyReplyCalls,  \* every reply of this turn requested tool calls
  turnHistory,      \* the messages the current turn of chat has pushed to
                    \* MCPHost.conversationHistory, in order
  llmSent,          \* the messages of this turn that were in the history
                    \* passed to the backend at its latest call
  offered,          \* the tools passed to the backend at its latest call
  llmFailed,        \* a call of the backend threw in this turn
  replyShape,       \* the shape of the latest reply of the backend
  listCalls         \* tools/list Requests issued since the host was closed

hostLog ==
  <<turnHistory, llmSent, offered, llmFailed, replyShape, listCalls>>

hostVars ==
  <<ready, availableTools, hostPc, hMode, toolCallCount, llmResponse,
    llmCalls, toolResults, returned, everyReplyCalls, hostLog>>

VARIABLES
  rbPc,     \* position of the Ruby client in initialize_connection
  rbSent,   \* methods of the lines the Ruby client has written
  rbPipe,   \* lines the server has written and gets has not returned yet
  rbEof     \* the stdout of the server process is at EOF

rbVars == <<rbPc, rbSent, rbPipe, rbEof>>

VARIABLES
  regCall   \* the latest direct call of the tool registry and its outcome

VARIABLES
  history,  \* NaturalLanguageCLI.history
  nlPc,     \* position of processInput
  nlLast    \* the operation of the CLI that ran last

nlVars == <<history, nlPc, nlLast>>

VARIABLES
  tsConnected,  \* MCPClient.connected of the typescript client
  tsNow,        \* Date.now()
  tsSent        \* the ids of the Requests the typescript client sent, in order

tsVars == <<tsConnected, tsNow, tsSent>>

vars == <<connKind, oldLoop, tsVars, srvVars, cliVars, hostVars, rbVars, regCall, nlVars>>

\* -------------------------------------------------------- pure functions
IsNotificationOnlyInitialized(line) ==
  line.id = NoId /\ line.method = "notifications/initialized"

IsNotification(line) == line.id = NoId

\* parseJsonRpcRequest: "" when the line is a Request or Notification,
\* otherwise the message of the Error it throws.
parseJsonRpcRequest(line) ==
  IF line.text = "empty" THEN "Invalid request format: empty or not a string"
  ELSE IF line.text = "garbage" THEN "JSON parse error"
  ELSE IF line.text # "object" THEN "Invalid request format: not an object"
  ELSE IF line.ver # "2.0" THEN "Invalid JSON-RPC version"
  ELSE IF line.method = NoMethod THEN "Invalid method field"
  ELSE ""

\* ajv.compile(schema)(input) for the input schema of the named tool: what
\* the call returns (valid) and the errors it leaves in validate.errors,
\* each named by its instance path and keyword.
ajvValidate(name, args) ==
  IF name = "dice" /\ args # NoArgs /\ args[1] < 1
    THEN [valid |-> FALSE, errors |-> {"/sides minimum"}]
    ELSE [valid |-> TRUE, errors |-> {}]

\* The violation list of the ToolInputValidationError validateInput throws:
\* validate.errors || [].
validationErrors(name, args) == ajvValidate(name, args).errors

\* validateInput against the input schema of the named tool: the dice schema
\* asks for sides: integer, minimum 1 (not required); the current_time
\* schema constrains only format.
validateInput(name, args) == ajvValidate(name, args).valid

executeNoDefault(name, args) ==
  IF name # "dice" \/ args = NoArgs THEN 0 ELSE args[1]

\* DiceTool.execute: the number of sides it rolls, input.sides || 6.
execute(name, args) ==
  IF name # "dice" THEN 0
  ELSE IF args = NoArgs \/ args[1] = 0 THEN 6
  ELSE args[1]

listTools == {n \in ToolNames : tools[n] # 0}

handleInitialize(req) ==
  createSuccessResponse(req.id, "serverInfo", {}, 0)

handleListTools(req) ==
  createSuccessResponse(req.id, "tools", listTools, 0)

\* What callTool throws when its try block raised: a ToolInputValidationError
\* is thrown on as it is, anything else is wrapped in a ToolExecutionError.
callToolCatch(raised) ==
  IF raised = "ToolInputValidationError" THEN "ToolInputValidationError"
  ELSE "ToolExecutionError"

\* What the handler of a tool does with validated inputs: it returns, or it
\* throws an Error, or (a BaseTool whose validate rejects the input) it
\* throws a ToolInputValidationError.
HandlerOutcomes == {"", "Error", "ToolInputValidationError"}

callToolStartStale(name, args) ==
  IF name \notin ToolNames THEN "not found"
  ELSE IF ~validateInput(name, args) THEN "ToolInputValidationError"
  ELSE "run"

callToolStartUnvalidated(name, args) ==
  IF name \notin ToolNames \/ tools[name] = 0 THEN "not found" ELSE "run"

\* callTool up to the call of the handler: "run" when the handler is
\* invoked, otherwise the kind of Error thrown.
callToolStart(name, args) ==
  IF name \notin ToolNames \/ tools[name] = 0 THEN "not found"
  ELSE IF ~validateInput(name, args) THEN "ToolInputValidationError"
  ELSE "run"

callToolErrorNoNotFound(req, thrown) ==
  IF thrown = "ToolInputValidationError"
    THEN createErrorResponse(req.id, InvalidToolInput, "Input validation failed", NoData)
  ELSE IF thrown = "ToolExecutionError"
    THEN createErrorResponse(req.id, ToolExecutionError, "Error executing tool", NoData)
  ELSE createErrorResponse(req.id, InternalError, "Tool execution error", NoData)

\* The catch clauses of handleCallTool.
callToolError(req, thrown) ==
  IF thrown = "ToolInputValidationError"
    THEN createErrorResponse(req.id, InvalidToolInput, "Input validation failed", NoData)
  ELSE IF thrown = "ToolExecutionError"
    THEN createErrorResponse(req.id, ToolExecutionError, "Error executing tool", NoData)
  ELSE IF thrown = "not found"
    THEN createErrorResponse(req.id, ToolNotFound, "Tool not found", NoData)
  ELSE createErrorResponse(req.id, InternalError, "Tool execution error", NoData)

\* handleCallTool up to the first macrotask boundary: resp is the Response
\* when it is known at once, exec says that the handler has been invoked and
\* the Response waits for it.
handleCallTool(req) ==
  IF req.name = NoName
    THEN [exec |-> FALSE, sched |-> FALSE,
          resp |-> createErrorResponse(req.id, InvalidParams,
                                       "Tool name is required", NoData)]
  ELSE IF callToolStart(req.name, req.args) = "run"
    THEN [exec |-> TRUE, sched |-> FALSE, resp |-> NoResp]
  ELSE [exec |-> FALSE, sched |-> FALSE,
        resp |-> callToolError(req, callToolStart(req.name, req.args))]

Now(resp) == [exec |-> FALSE, sched |-> FALSE, resp |-> resp]

allowedPreInitMethods == {"initialize", "ping"}

dispatchShutdownUnanswered(req) ==
  IF req.method = "shutdown"
    THEN [exec |-> FALSE, sched |-> TRUE,
          resp |-> createErrorResponse(req.id, InternalError, "stopping", NoData)]
  ELSE IF req.method = "initialize" THEN Now(handleInitialize(req))
  ELSE IF req.method = "ping"
    THEN Now(createSuccessResponse(req.id, "pong", {}, 0))
  ELSE IF req.method = "tools/list" THEN Now(handleListTools(req))
  ELSE IF req.method = "tools/call" THEN handleCallTool(req)
  ELSE Now(createErrorResponse(req.id, MethodNotFound, "not found", NoData))

dispatchInitializeOnce(req) ==
  IF req.method = "initialize"
    THEN IF initialized
           THEN Now(createErrorResponse(req.id, InvalidRequest,
                                        "already initialized", NoData))
           ELSE Now(handleInitialize(req))
  ELSE IF req.method = "ping"
    THEN Now(createSuccessResponse(req.id, "pong", {}, 0))
  ELSE IF req.method = "tools/list" THEN Now(handleListTools(req))
  ELSE IF req.method = "tools/call" THEN handleCallTool(req)
  ELSE IF req.method = "shutdown"
    THEN [exec |-> FALSE, sched |-> TRUE,
          resp |-> createSuccessResponse(req.id, "success", {}, 0)]
  ELSE Now(createErrorResponse(req.id, MethodNotFound, "not found", NoData))

\* The switch of processJsonRpcRequest.
dispatch(req) ==
  IF req.method = "initialize" THEN Now(handleInitialize(req))
  ELSE IF req.method = "ping"
    THEN Now(createSuccessResponse(req.id, "pong", {}, 0))
  ELSE IF req.method = "tools/list" THEN Now(handleListTools(req))
  ELSE IF req.method = "tools/call" THEN handleCallTool(req)
  ELSE IF req.method = "shutdown"
    THEN [exec |-> FALSE, sched |-> TRUE,
          resp |-> createSuccessResponse(req.id, "success", {}, 0)]
  ELSE Now(createErrorResponse(req.id, MethodNotFound, "not found", NoData))

notAllowedYet(req) ==
  createErrorResponse(req.id, MethodNotFound,
                      "not allowed before initialization", NoData)

processJsonRpcRequestWeakGate(req) ==
  IF ~initialized /\ req.method \notin (allowedPreInitMethods \cup {"tools/list"})
    THEN Now(notAllowedYet(req))
    ELSE dispatch(req)

processJsonRpcRequestAlwaysGated(req) ==
  IF req.method \notin allowedPreInitMethods
    THEN Now(notAllowedYet(req))
    ELSE dispatch(req)

processJsonRpcRequest(req) ==
  IF ~initialized /\ req.method \notin allowedPreInitMethods
    THEN Now(notAllowedYet(req))
    ELSE dispatch(req)

\* The Response the loop builds when it cannot parse or process the line.
parseErrorResponseBadCode(message) ==
  createErrorResponse(NoId, InvalidRequest, message, NoData)

parseErrorResponse(message) ==
  createErrorResponse(NoId, ParseError, message, NoData)

\* ------------------------------------------------------------------- init
Init ==
  /\ connKind \in ConnKinds
  /\ running = FALSE
  /\ initialized = FALSE
  /\ tools = [n \in ToolNames |-> 0]
  /\ connOpen = (connKind = "wip")   \* the wip constructor opens the stream
  /\ queue = <<>>
  /\ srvPc = "created"
  /\ cur = NoLine
  /\ curReady = FALSE
  /\ wrote = 0
  /\ lastOut = NoResp
  /\ execd = FALSE
  /\ execDef = 0
  /\ stopTimers = 0
  /\ handshake = "none"
  /\ oldLoop = "none"
  /\ cOpen = (connKind = "wip")
  /\ cBuf = <<>>
  /\ cWait = <<>>
  /\ connected = FALSE
  /\ requestCounter = 0
  /\ inflight = {}
  /\ call = [c \in Callers |-> IdleCall]
  /\ ready = FALSE
  /\ availableTools = {}
  /\ hostPc = "idle"
  /\ hMode = "none"
  /\ toolCallCount = 0
  /\ llmResponse = <<>>
  /\ llmCalls = 0
  /\ toolResults = <<>>
  /\ returned = 0
  /\ everyReplyCalls = TRUE
  /\ turnHistory = <<>>
  /\ llmSent = <<>>
  /\ offered = {}
  /\ llmFailed = FALSE
  /\ replyShape = "none"
  /\ listCalls = 0
  /\ rbPc = "new"
  /\ rbSent = <<>>
  /\ rbPipe = <<>>
  /\ rbEof = FALSE
  /\ regCall = NoRegCall
  /\ tsConnected = FALSE
  /\ tsNow = 0
  /\ tsSent = <<>>
  /\ history = <<ChatMessage("system", "prompt")>>
  /\ nlPc = "idle"
  /\ nlLast = "none"

\* No continuation of the receive loop is runnable: a new macrotask may start.
Quiescent == srvPc # "loop"

\* --------------------------------------------------------- server actions
\* connection.send(responseStr) followed by the end of the loop body: the
\* send throws on a closed connection, and the outer catch then leaves the
\* loop because isConnected() is false.
SendAndLoop(resp, w) ==
  IF connOpen
    THEN /\ lastOut' = resp
         /\ wrote' = w + 1
         /\ srvPc' = "loop"
    ELSE /\ srvPc' = "exited"
         /\ lastOut' = IF w = 0 THEN NoResp ELSE lastOut
         /\ wrote' = w

\* The handshake after the loop has received line: an initialize Request,
\* then the initialized notification.
Received(line) ==
  IF parseJsonRpcRequest(line) # "" THEN handshake
  ELSE IF ~IsNotification(line) /\ line.method = "initialize"
            /\ handshake = "none"
    THEN "initialize"
  ELSE IF IsNotification(line) /\ line.method = "notifications/initialized"
            /\ handshake = "initialize"
    THEN "initialized"
  ELSE handshake

\* The body of the receive loop for one received line, up to its first
\* macrotask boundary.
ProcessLine(line) ==
  /\ cur' = line
  /\ curReady' = initialized
  /\ handshake' = Received(line)
  /\ IF parseJsonRpcRequest(line) # ""
       THEN /\ SendAndLoop(parseErrorResponse(parseJsonRpcRequest(line)), 0)
            /\ execd' = FALSE
            /\ execDef' = 0
            /\ UNCHANGED <<initialized, stopTimers>>
     ELSE IF IsNotification(line)
       THEN /\ initialized' =
                 (initialized \/ line.method = "notifications/initialized")
            /\ srvPc' = "loop"
            /\ wrote' = 0
            /\ lastOut' = NoResp
            /\ execd' = FALSE
            /\ execDef' = 0
            /\ UNCHANGED stopTimers
     ELSE LET d == processJsonRpcRequest(line) IN
          IF d.exec
            THEN /\ srvPc' = "exec"
                 /\ execd' = TRUE
                 /\ execDef' = tools[line.name]
                 /\ wrote' = 0
                 /\ lastOut' = NoResp
                 /\ UNCHANGED <<initialized, stopTimers>>
            ELSE /\ SendAndLoop(d.resp, 0)
                 /\ execd' = FALSE
                 /\ stopTimers' = IF d.sched THEN stopTimers + 1 ELSE stopTimers
                 /\ execDef' = 0
                 /\ UNCHANGED initialized

\* registerTool(tool, override): throws when the name is taken and override
\* is false. def identifies the definition (schema and handler) stored.
registerTool(name, def, override) ==
  /\ ~(tools[name] # 0 /\ ~override)
  /\ tools' = [tools EXCEPT ![name] = def]

RegisterTool ==
  /\ Quiescent
  /\ \E name \in ToolNames, def \in 1..MaxDef, override \in BOOLEAN :
       /\ def # tools[name]
       /\ registerTool(name, def, override)
  /\ UNCHANGED <<regCall, rbVars, hostVars, cliVars, connKind, oldLoop, tsVars, nlVars, running, initialized, connOpen, queue, srvPc, cur,
                 curReady, wrote, lastOut, execd, execDef, stopTimers, handshake>>

\* unregisterTool(name): throws when the name is not registered.
unregisterTool(name) ==
  /\ tools[name] # 0
  /\ tools' = [tools EXCEPT ![name] = 0]

UnregisterTool ==
  /\ Quiescent
  /\ \E name \in ToolNames : unregisterTool(name)
  /\ UNCHANGED <<regCall, rbVars, hostVars, cliVars, connKind, oldLoop, tsVars, nlVars, running, initialized, connOpen, queue, srvPc, cur,
                 curReady, wrote, lastOut, execd, execDef, stopTimers, handshake>>

\* start(), called when no receive loop of an earlier start() is alive:
\* connection.initialize(), running = true, then handleRequests().
Start ==
  /\ srvPc \in {"created", "exited"}
  /\ ~running
  /\ connOpen' = TRUE
  /\ running' = TRUE
  /\ srvPc' = "loop"
  /\ UNCHANGED <<regCall, rbVars, hostVars, cliVars, connKind, oldLoop, tsVars, nlVars, initialized, tools, queue, cur, curReady, wrote,
                 lastOut, execd, execDef, stopTimers, handshake>>

\* The head of the while loop and connection.receive().
LoopReceive ==
  /\ srvPc = "loop"
  /\ IF ~running \/ ~connOpen
       THEN \* while (this.running) ends, or receive() throws and the outer
            \* catch breaks because isConnected() is false
            /\ srvPc' = "exited"
            /\ UNCHANGED <<initialized, queue, cur, curReady, wrote, lastOut,
                           execd, execDef, stopTimers, handshake>>
     ELSE IF queue # <<>>
       THEN /\ queue' = Tail(queue)
            /\ ProcessLine(Head(queue))
     ELSE /\ srvPc' = "waiting"
          /\ UNCHANGED <<initialized, queue, cur, curReady, wrote, lastOut,
                         execd, execDef, stopTimers, handshake>>
  /\ UNCHANGED <<regCall, rbVars, hostVars, cliVars, connKind, oldLoop, tsVars, nlVars, running, tools, connOpen>>

\* Shutdown timers the lines of q will schedule at most.
RECURSIVE Shutdowns(_)
Shutdowns(q) ==
  IF q = <<>> THEN 0
  ELSE (IF Head(q).method = "shutdown" THEN 1 ELSE 0) + Shutdowns(Tail(q))

\* A 'line' event of readline: handleInput (wip) / the rl.on('line') handler
\* (ts). The wip handler trims the line and drops an empty one.
HandleInputFrom(lines) ==
  /\ Quiescent
  /\ connOpen
  /\ \E line \in lines :
       /\ ~(connKind = "wip" /\ line.text = "empty")
       /\ line.method = "shutdown" => stopTimers + Shutdowns(queue) < MaxTimers
       /\ IF srvPc = "waiting"
            THEN /\ ProcessLine(line)
                 /\ UNCHANGED queue
            ELSE /\ Len(queue) < MaxQueue
                 /\ queue' = Append(queue, line)
                 /\ UNCHANGED <<initialized, srvPc, cur, curReady, wrote,
                                lastOut, execd, execDef, stopTimers, handshake>>
  /\ UNCHANGED <<regCall, rbVars, hostVars, cliVars, connKind, oldLoop, tsVars, nlVars, running, tools, connOpen>>

HandleInput == HandleInputFrom(Lines)

\* The promise of tool.handler settles: callTool returns the output or
\* throws what its catch makes of the exception of the handler,
\* handleCallTool builds the Response and the loop sends it.
toolResponse(req, def, raised) ==
  IF raised = ""
    THEN [createSuccessResponse(req.id, "output", {}, def)
            EXCEPT !.sides = execute(req.name, req.args)]
    ELSE callToolError(req, callToolCatch(raised))

ToolFinish ==
  /\ srvPc = "exec"
  /\ \E raised \in HandlerOutcomes :
       SendAndLoop(toolResponse(cur, execDef, raised), wrote)
  /\ UNCHANGED <<regCall, rbVars, hostVars, cliVars, connKind, oldLoop, tsVars, nlVars, running, initialized, tools, connOpen, queue, cur,
                 curReady, execd, execDef, stopTimers, handshake>>

\* stop(): connection.close(), then running = false. The wip close() resolves
\* the pending receive() with '', which the loop fails to parse; its
\* ParseError Response cannot be sent on the closed connection, so the loop
\* ends. The ts close() leaves the pending receive() pending.
stop ==
  IF ~running
    THEN UNCHANGED <<running, connOpen, srvPc>>
    ELSE /\ connOpen' = FALSE
         /\ running' = FALSE
         /\ srvPc' = IF srvPc = "waiting" /\ connOpen /\ connKind = "wip"
                       THEN "exited" ELSE srvPc

\* The timer set by a shutdown Request fires.
StopTimer ==
  /\ Quiescent
  /\ stopTimers > 0
  /\ stopTimers' = stopTimers - 1
  /\ stop
  /\ UNCHANGED <<regCall, rbVars, hostVars, cliVars, connKind, oldLoop, tsVars, nlVars, initialized, tools, queue, cur, curReady, wrote,
                 lastOut, execd, execDef, handshake>>

\* The embedding program calls stop().
StopCall ==
  /\ Quiescent
  /\ running
  /\ stop
  /\ UNCHANGED <<regCall, rbVars, hostVars, cliVars, connKind, oldLoop, tsVars, nlVars, initialized, tools, queue, cur, curReady, wrote,
                 lastOut, execd, execDef, stopTimers, handshake>>

\* connection.close() reached without stop(): the owner of the connection
\* closes it, or the process 'exit' handler of the wip StdioConnection runs.
\* running is left as it is.  The pending receive() ends as in stop.
ConnectionClose ==
  /\ Quiescent
  /\ connOpen
  /\ connOpen' = FALSE
  /\ srvPc' = IF srvPc = "waiting" /\ connKind = "wip" THEN "exited" ELSE srvPc
  /\ UNCHANGED <<regCall, rbVars, hostVars, cliVars, connKind, oldLoop, tsVars, nlVars, running, initialized, tools, queue, cur,
                 curReady, wrote, lastOut, execd, execDef, stopTimers, handshake>>

Next ==
  \/ RegisterTool
  \/ UnregisterTool
  \/ Start
  \/ LoopReceive
  \/ HandleInput
  \/ ToolFinish
  \/ StopTimer
  \/ StopCall
  \/ ConnectionClose

Spec == Init /\ [][Next]_vars

\* ------------------------------------------------ start() after stop()
\* start() returns early only when running is true.  Called after stop()
\* while the receive loop of the earlier start() is still suspended in the
\* handler of a tool, it reopens the connection, sets running and enters
\* handleRequests() a second time: a second receive loop runs beside the
\* first.  oldLoop follows the first loop until its handler has settled.
Restart ==
  /\ srvPc = "exec"
  /\ ~running
  /\ oldLoop = "none"
  /\ connOpen' = TRUE
  /\ running' = TRUE
  /\ srvPc' = "loop"
  /\ oldLoop' = "exec"
  /\ UNCHANGED <<regCall, rbVars, hostVars, cliVars, connKind, nlVars, tsVars,
                 initialized, tools, queue, cur, curReady, wrote, lastOut,
                 execd, execDef, stopTimers, handshake>>

\* The handler the first loop awaits settles: the loop sends its Response,
\* or the send throws on a closed connection.
OldToolFinish ==
  /\ Quiescent
  /\ oldLoop = "exec"
  /\ oldLoop' = IF connOpen THEN "sent" ELSE "exited"
  /\ UNCHANGED <<regCall, rbVars, hostVars, cliVars, connKind, nlVars, tsVars, srvVars>>

\* The lines a client writes to the restarted server.
RestartLines ==
  CallLines \cup {Line("object", "2.0", "notifications/initialized", NoId,
                       NoName, NoArgs)}

RestartInput == HandleInputFrom(RestartLines)

\* The two loops are followed up to the end of the dispatch of the first.
RestartNext ==
  \/ /\ oldLoop \in {"none", "exec"}
     /\ \/ RegisterTool
        \/ UnregisterTool
        \/ Start
        \/ LoopReceive
        \/ RestartInput
        \/ ToolFinish
        \/ StopCall
        \/ ConnectionClose
  \/ Restart
  \/ OldToolFinish

RestartSpec == Init /\ [][RestartNext]_vars

\* --------------------------------------------------------- client actions
\* parseJsonRpcResponse: a line that does not start with { or [ becomes an
\* error Response with a null id and code -32700.
parseJsonRpcResponse(line) ==
  IF line.kind \notin {"result", "error"}
    THEN CLine(NoId, "error", ParseError, NoData)
    ELSE line

\* The Error sendJsonRpcRequest throws for an error Response: its text is
\* made of error.message and error.code, and nothing of error.data.
serverError(response) == [code |-> response.code, data |-> NoData]

\* The end of sendJsonRpcRequest: it throws when the Response has an error.
Outcome(line) ==
  IF parseJsonRpcResponse(line).kind = "error" THEN "failed" ELSE "ok"

\* Caller c after receive() returned line to it and it ran to its end.
\* close() swallows a failed shutdown; initialize() and the tool methods
\* fail with the error of the Response.
Settle(c, line) ==
  IF call[c].op = "close" THEN Call("ok", "close", call[c].id, line)
  ELSE Call(Outcome(line), call[c].op, call[c].id, line)

\* MCPClient.connected after a caller running op got line: initialize()
\* sets it once its Response is a success, close() clears it.
ConnectedAfter(op, line) ==
  IF op = "close" THEN FALSE
  ELSE IF op = "initialize" /\ Outcome(line) = "ok" THEN TRUE
  ELSE connected

\* The connection after a caller running op got a line: close() goes on
\* to connection.close().
OpenAfter(op, open) == IF op = "close" THEN FALSE ELSE open

\* receive() with nothing buffered: the wip connection stores the resolver
\* under the one key 'receive', the ts connection appends it.
receiveWait(c) == IF connKind = "wip" THEN <<c>> ELSE Append(cWait, c)

\* sendJsonRpcRequest of caller c running op on a connection whose state is
\* open: the id is taken, the Request is sent and receive() is called.
sendJsonRpcRequest(c, op, open) ==
  /\ requestCounter < MaxRequests
  /\ requestCounter' = requestCounter + 1
  /\ IF ~open
       THEN \* send throws; close() catches it and closes the connection
            /\ call' = [call EXCEPT ![c] =
                 Call(IF op = "close" THEN "ok" ELSE "failed", op,
                      requestCounter + 1, NoCLine)]
            /\ connected' = IF op = "close" THEN FALSE ELSE connected
            /\ cOpen' = open
            /\ UNCHANGED <<cBuf, cWait, inflight>>
     ELSE IF cBuf # <<>>
       THEN \* a buffered line is returned at once
            /\ call' = [call EXCEPT ![c] =
                 IF op = "close"
                   THEN Call("ok", op, requestCounter + 1, Head(cBuf))
                   ELSE Call(Outcome(Head(cBuf)), op, requestCounter + 1,
                             Head(cBuf))]
            /\ connected' = ConnectedAfter(op, Head(cBuf))
            /\ cOpen' = OpenAfter(op, open)
            /\ cBuf' = Tail(cBuf)
            /\ inflight' = inflight \cup {requestCounter + 1}
            /\ UNCHANGED cWait
     ELSE /\ call' = [call EXCEPT ![c] =
               Call("waiting", op, requestCounter + 1, NoCLine)]
          /\ cWait' = receiveWait(c)
          /\ cOpen' = open
          /\ inflight' = inflight \cup {requestCounter + 1}
          /\ UNCHANGED <<cBuf, connected>>

\* MCPClient.initialize(): connection.initialize(), then the initialize
\* Request; the notification and connected = true follow its Response.
ClientInitialize ==
  /\ \E c \in Callers :
       /\ call[c].st = "idle"
       /\ ~connected
       /\ sendJsonRpcRequest(c, "initialize", TRUE)
  /\ UNCHANGED <<regCall, rbVars, hostVars, connKind, oldLoop, tsVars, nlVars, srvVars>>

\* MCPClient.listTools() and callTool().
ClientCall ==
  /\ \E c \in Callers, op \in {"listTools", "callTool"} :
       /\ call[c].st = "idle"
       /\ IF ~connected
            THEN \* throws 'Client not initialized'
                 /\ call' = [call EXCEPT ![c] =
                      Call("failed", op, NoId, NoCLine)]
                 /\ UNCHANGED <<cOpen, cBuf, cWait, connected,
                                requestCounter, inflight>>
            ELSE sendJsonRpcRequest(c, op, cOpen)
  /\ UNCHANGED <<regCall, rbVars, hostVars, connKind, oldLoop, tsVars, nlVars, srvVars>>

\* MCPClient.close(): returns at once when the client is not connected;
\* otherwise the shutdown Request, and connection.close() and
\* connected = false follow its Response or its failure.
ClientClose ==
  /\ \E c \in Callers :
       /\ call[c].st = "idle"
       /\ IF ~connected
            THEN /\ call' = [call EXCEPT ![c] =
                      Call("ok", "close", NoId, NoCLine)]
                 /\ UNCHANGED <<cOpen, cBuf, cWait, connected,
                                requestCounter, inflight>>
            ELSE sendJsonRpcRequest(c, "close", cOpen)
  /\ UNCHANGED <<regCall, rbVars, hostVars, connKind, oldLoop, tsVars, nlVars, srvVars>>

\* A Response line arrives on the client's input: the server answers the
\* outstanding Requests in an order of its own.
Deliver ==
  /\ cOpen
  /\ \E id \in inflight : \E line \in ResponseLines(id) :
       /\ inflight' = inflight \ {id}
       /\ IF cWait # <<>>
            THEN LET buf == Append(cBuf, line)
                     c == Head(cWait)
                 IN /\ cWait' = Tail(cWait)
                    /\ cBuf' = Tail(buf)
                    /\ call' = [call EXCEPT ![c] = Settle(c, Head(buf))]
                    /\ connected' = ConnectedAfter(call[c].op, Head(buf))
                    /\ cOpen' = OpenAfter(call[c].op, cOpen)
            ELSE /\ cBuf' = Append(cBuf, line)
                 /\ UNCHANGED <<cWait, call, connected, cOpen>>
  /\ UNCHANGED <<regCall, rbVars, hostVars, connKind, oldLoop, tsVars, nlVars, srvVars, requestCounter>>

\* The resolvers connection.close() resolves with '': the wip close()
\* resolves those of resolveMap, the ts close() resolves none.
closeWaiters == IF connKind = "wip" THEN cWait ELSE <<>>

\* connection.close() called on the open Channel by its owner.
ChannelClose ==
  /\ cOpen
  /\ cOpen' = FALSE
  /\ IF closeWaiters # <<>>
       THEN LET c == Head(closeWaiters)
            IN /\ cWait' = <<>>
               /\ call' = [call EXCEPT ![c] = Settle(c, ClosedLine)]
               /\ connected' = ConnectedAfter(call[c].op, ClosedLine)
       ELSE UNCHANGED <<cWait, call, connected>>
  /\ UNCHANGED <<regCall, rbVars, hostVars, connKind, oldLoop, tsVars, nlVars, srvVars, cBuf, requestCounter, inflight>>

\* The caller takes the outcome of its call and is free to call again.
ClientReturn ==
  /\ \E c \in Callers :
       /\ call[c].st \in {"ok", "failed"}
       /\ call' = [call EXCEPT ![c] = IdleCall]
  /\ UNCHANGED <<regCall, rbVars, hostVars, connKind, oldLoop, tsVars, nlVars, srvVars, cOpen, cBuf, cWait, connected,
                 requestCounter, inflight>>

ClientNext ==
  \/ ClientInitialize
  \/ ClientCall
  \/ ClientClose
  \/ Deliver
  \/ ChannelClose
  \/ ClientReturn

ClientSpec == Init /\ [][ClientNext]_vars

\* ------------------------------------------- typescript client actions
\* generateRequestId: `req_${Date.now()}_${Math.floor(Math.random() * 1000)}`.
generateRequestId(now, random) == <<now, random>>

\* MCPClient.initialize() of the typescript client.
TsInitialize ==
  /\ ~tsConnected
  /\ tsConnected' = TRUE
  /\ UNCHANGED <<tsNow, tsSent>>
  /\ UNCHANGED <<regCall, rbVars, hostVars, cliVars, connKind, oldLoop, nlVars, srvVars>>

\* listTools() and callTool() of the typescript client build their Request
\* with a generated id and send it.
TsRequest ==
  /\ tsConnected
  /\ Len(tsSent) < MaxTsRequests
  /\ \E random \in 0..(MaxRandom - 1) :
       tsSent' = Append(tsSent, generateRequestId(tsNow, random))
  /\ UNCHANGED <<tsConnected, tsNow>>
  /\ UNCHANGED <<regCall, rbVars, hostVars, cliVars, connKind, oldLoop, nlVars, srvVars>>

\* A millisecond passes.
TsTick ==
  /\ tsNow < MaxClock
  /\ tsNow' = tsNow + 1
  /\ UNCHANGED <<tsConnected, tsSent>>
  /\ UNCHANGED <<regCall, rbVars, hostVars, cliVars, connKind, oldLoop, nlVars, srvVars>>

TsClientNext ==
  \/ TsInitialize
  \/ TsRequest
  \/ TsTick

TsClientSpec == Init /\ [][TsClientNext]_vars

\* ----------------------------------------------------------- host actions
\* extractFunctionCalls / llmResponse.toolCalls: the tool calls a reply of
\* the backend requests; a reply of plain text requests none.
NoToolCalls == <<>>
HostToolNames == {"dice", "unknown_tool"}
Batches == UNION {[1..n -> HostToolNames] : n \in 0..MaxBatch}
Outcomes == {"ok", "error"}

\* The replies of the backend chat() tells apart, by the text of the reply:
\* plain text; text that starts with { and is not JSON; an object without
\* function_calls; function_calls an empty list, a number, a non-empty
\* string, a list of entries without a name; a list of {name, arguments}.
NoCallShapes ==
  {"text", "malformed", "noList", "emptyList", "number", "string"}
Reply(shape, calls) == [shape |-> shape, calls |-> calls]
ChatReplies ==
  {Reply(sh, NoToolCalls) : sh \in NoCallShapes}
  \cup {Reply("nonEntries", <<NoName>>)}
  \cup {Reply("calls", b) : b \in Batches \ {NoToolCalls}}

\* A reply of llmProvider.chat: toolCalls is absent, empty or a list.
RequestReplies ==
  {Reply("text", NoToolCalls)}
  \cup {Reply("calls", b) : b \in Batches \ {NoToolCalls}}

\* extractFunctionCalls: null unless the reply starts with {, parses, and
\* has a truthy function_calls whose length is above 0, which is then
\* returned as it is: a list, or a string.
extractFunctionCalls(reply) ==
  IF reply.shape \in {"text", "malformed", "noList", "emptyList", "number"}
    THEN [kind |-> "null", calls |-> NoToolCalls]
  ELSE IF reply.shape = "string"
    THEN [kind |-> "string", calls |-> NoToolCalls]
  ELSE [kind |-> "list", calls |-> reply.calls]

\* The condition of the while loop of chatWithRequest; the mutant lets one
\* more round run.
loopContinuesOneMore(reply, count) ==
  reply # NoToolCalls /\ count <= maxToolCalls

loopContinues(reply, count) ==
  reply # NoToolCalls /\ count < maxToolCalls

\* processToolCall: a tool that is not among availableTools is refused with
\* an Error, any other is passed to client.callTool, which returns or throws.
processToolCall(name, clientOutcome) ==
  IF name \notin availableTools THEN "error" ELSE clientOutcome

\* Where the turn stands once a tool call of the batch has settled with the
\* results res: the catch around each call keeps the error as the result
\* of that call, and the batch ends when every call has a result.  The
\* mutant lets the error escape.
afterToolCallAbort(res) ==
  IF \E i \in DOMAIN res : res[i] = "error" THEN "failed"
  ELSE IF \A i \in DOMAIN res : res[i] \in Outcomes THEN "llm" ELSE "tools"

afterToolCall(res) ==
  IF \A i \in DOMAIN res : res[i] \in Outcomes THEN "llm" ELSE "tools"

toolResultMessageSuccessesOnly(res) ==
  Message("system", 0, Cardinality({i \in DOMAIN res : res[i] = "ok"}))

\* toolResultMessage: one line per element of results, a success or an
\* error.
toolResultMessage(res) == Message("system", 0, Len(res))

\* MCPHost.initialize(): nothing when ready; otherwise client.initialize(),
\* then client.listTools(), which issues tools/list; when either throws,
\* ready stays false.
HostInitialize ==
  /\ ~ready
  /\ \E initOk \in BOOLEAN, listOk \in BOOLEAN,
        avail \in {{"dice"}, {"dice", "current_time"}} :
       /\ initOk => listCalls < MaxList
       /\ listCalls' = IF initOk THEN listCalls + 1 ELSE listCalls
       /\ IF initOk /\ listOk
            THEN ready' = TRUE /\ availableTools' = avail
            ELSE UNCHANGED <<ready, availableTools>>
  /\ UNCHANGED <<hostPc, hMode, toolCallCount, llmResponse, llmCalls,
                 toolResults, returned, everyReplyCalls>>
  /\ UNCHANGED <<turnHistory, llmSent, offered, llmFailed, replyShape>>
  /\ UNCHANGED <<regCall, rbVars, connKind, oldLoop, tsVars, nlVars, srvVars, cliVars>>

\* MCPHost.close(): client.close() ends the session.
HostClose ==
  /\ ready
  /\ ready' = FALSE
  /\ listCalls' = 0
  /\ UNCHANGED <<availableTools, hostPc, hMode, toolCallCount, llmResponse,
                 llmCalls, toolResults, returned, everyReplyCalls>>
  /\ UNCHANGED <<turnHistory, llmSent, offered, llmFailed, replyShape>>
  /\ UNCHANGED <<regCall, rbVars, connKind, oldLoop, tsVars, nlVars, srvVars, cliVars>>

\* A turn starts: chat(userMessage) or chatWithRequest(request), up to the
\* first call of the backend.  chat appends the user message and passes the
\* history, and nothing else, to sendMessage; chatWithRequest throws when
\* the host is not ready and passes availableTools with the request.
StartTurn ==
  /\ hostPc = "idle"
  /\ \E m \in {"chat", "chatWithRequest"} :
       /\ hMode' = m
       /\ hostPc' = IF m = "chatWithRequest" /\ ~ready THEN "failed" ELSE "llm"
       /\ IF m = "chat"
            THEN /\ turnHistory' = <<Message("user", 0, 0)>>
                 /\ llmSent' = turnHistory'
                 /\ offered' = {}
            ELSE /\ turnHistory' = <<>>
                 /\ llmSent' = <<>>
                 /\ offered' = IF ready THEN availableTools ELSE {}
  /\ toolCallCount' = 0
  /\ llmCalls' = 0
  /\ llmResponse' = NoToolCalls
  /\ toolResults' = <<>>
  /\ returned' = 0
  /\ everyReplyCalls' = TRUE
  /\ llmFailed' = FALSE
  /\ replyShape' = "none"
  /\ UNCHANGED <<ready, availableTools, listCalls>>
  /\ UNCHANGED <<regCall, rbVars, connKind, oldLoop, tsVars, nlVars, srvVars, cliVars>>

LlmThrowsRetry ==
  /\ hostPc = "llm"
  /\ ~llmFailed
  /\ llmFailed' = TRUE
  /\ UNCHANGED <<ready, availableTools, hostPc, hMode, toolCallCount,
                 llmResponse, llmCalls, toolResults, returned, everyReplyCalls>>
  /\ UNCHANGED <<turnHistory, llmSent, offered, replyShape, listCalls>>
  /\ UNCHANGED <<regCall, rbVars, connKind, oldLoop, tsVars, nlVars, srvVars, cliVars>>

\* The backend call throws: the turn fails with its error.
LlmThrows ==
  /\ hostPc = "llm"
  /\ hostPc' = "failed"
  /\ llmFailed' = TRUE
  /\ UNCHANGED <<ready, availableTools, hMode, toolCallCount, llmResponse,
                 llmCalls, toolResults, returned, everyReplyCalls>>
  /\ UNCHANGED <<turnHistory, llmSent, offered, replyShape, listCalls>>
  /\ UNCHANGED <<regCall, rbVars, connKind, oldLoop, tsVars, nlVars, srvVars, cliVars>>

\* The first tool calls of a batch: chat starts every call of the batch
\* (Promise.all over the mapped calls), chatWithRequest awaits the calls one
\* after the other.
startBatch(m, reply) ==
  [i \in DOMAIN reply |-> IF m = "chat" THEN "pending" ELSE "none"]

\* The tool calls chat takes from a reply, given the replies it had before:
\* extractFunctionCalls is applied to the first reply of the turn only, the
\* second reply is pushed and returned as it is.
chatFunctionCallsEveryReply(reply, before) == extractFunctionCalls(reply)

chatFunctionCalls(reply, before) ==
  IF before = 0 THEN extractFunctionCalls(reply)
  ELSE [kind |-> "null", calls |-> NoToolCalls]

\* The backend replies.  chat runs one batch after its first reply and
\* returns its second reply, appending the reply it returns to the history;
\* functionCalls.map throws a TypeError when extractFunctionCalls returned a
\* string.  chatWithRequest counts the round its reply closes and runs the
\* next batch while loopContinues.
LlmReply ==
  /\ hostPc = "llm"
  /\ \E reply \in (IF hMode = "chat" THEN ChatReplies ELSE RequestReplies) :
       LET count == IF hMode = "chatWithRequest" /\ llmCalls > 0
                      THEN toolCallCount + 1 ELSE toolCallCount
           functionCalls ==
             IF hMode = "chat" THEN chatFunctionCalls(reply, llmCalls)
             ELSE [kind |-> "list", calls |-> reply.calls]
           more == IF hMode = "chat" THEN functionCalls.kind = "list"
                   ELSE loopContinues(reply.calls, count)
       IN /\ llmResponse' = functionCalls.calls
          /\ replyShape' = reply.shape
          /\ llmCalls' = llmCalls + 1
          /\ toolCallCount' = count
          /\ everyReplyCalls' = (everyReplyCalls /\ reply.shape = "calls")
          /\ IF functionCalls.kind = "string"
               THEN /\ hostPc' = "failed"
                    /\ UNCHANGED <<toolResults, returned, turnHistory>>
             ELSE IF more
               THEN /\ hostPc' = "tools"
                    /\ toolResults' = startBatch(hMode, functionCalls.calls)
                    /\ UNCHANGED <<returned, turnHistory>>
               ELSE /\ hostPc' = "done"
                    /\ returned' = llmCalls + 1
                    /\ toolResults' = toolResults
                    /\ turnHistory' =
                         IF hMode = "chat"
                           THEN Append(turnHistory,
                                       Message("assistant", llmCalls + 1, 0))
                           ELSE turnHistory
  /\ UNCHANGED <<ready, availableTools, hMode>>
  /\ UNCHANGED <<llmSent, offered, llmFailed, listCalls>>
  /\ UNCHANGED <<regCall, rbVars, connKind, oldLoop, tsVars, nlVars, srvVars, cliVars>>

\* The tool calls of the batch that may settle next.
Settleable ==
  IF hMode = "chat"
    THEN {i \in DOMAIN toolResults : toolResults[i] = "pending"}
    ELSE {i \in DOMAIN toolResults :
            /\ toolResults[i] = "none"
            /\ \A j \in 1..(i - 1) : toolResults[j] \in Outcomes}

\* chat after its batch: the reply that requested the calls and the tool
\* result message are pushed to the history.
pushToolResultsFresh(h, res) ==
  <<Message("assistant", llmCalls, 0), toolResultMessage(res)>>

pushToolResults(h, res) ==
  h \o <<Message("assistant", llmCalls, 0), toolResultMessage(res)>>

\* MCPHost.conversationHistory: the system prompt the constructor pushed,
\* then the messages of the turn.
conversationHistory == <<Message("system", 0, 0)>> \o turnHistory

\* One tool call of the batch settles: client.callTool returned or threw.
\* When it was the last of the batch the backend is called again: by chat
\* with the history, to which it has appended the reply and the tool result
\* message; by chatWithRequest with the request, its tools and the results.
ToolSettle ==
  /\ hostPc = "tools"
  /\ \E i \in Settleable, clientOutcome \in Outcomes :
       LET outcome == IF hMode = "chat" THEN clientOutcome
                      ELSE processToolCall(llmResponse[i], clientOutcome)
           res == [toolResults EXCEPT ![i] = outcome]
       IN /\ toolResults' = res
          /\ hostPc' = afterToolCall(res)
          /\ IF hMode = "chat" /\ afterToolCall(res) = "llm"
               THEN /\ turnHistory' = pushToolResults(turnHistory, res)
                    /\ llmSent' = turnHistory'
               ELSE UNCHANGED <<turnHistory, llmSent>>
  /\ UNCHANGED <<ready, availableTools, hMode, toolCallCount, llmResponse,
                 llmCalls, returned, everyReplyCalls>>
  /\ UNCHANGED <<offered, llmFailed, replyShape, listCalls>>
  /\ UNCHANGED <<regCall, rbVars, connKind, oldLoop, tsVars, nlVars, srvVars, cliVars>>

\* chatWithRequest after its loop: logger.warn('Reached maximum tool call
\* limit') when toolCallCount >= maxToolCalls, then the return.
limitWarning ==
  hMode = "chatWithRequest" /\ hostPc = "done" /\ toolCallCount >= maxToolCalls

\* The caller of the host takes the reply or the error of the turn.
HostReturn ==
  /\ hostPc \in {"done", "failed"}
  /\ hostPc' = "idle"
  /\ UNCHANGED <<ready, availableTools, hMode, toolCallCount, llmResponse,
                 llmCalls, toolResults, returned, everyReplyCalls>>
  /\ UNCHANGED hostLog
  /\ UNCHANGED <<regCall, rbVars, connKind, oldLoop, tsVars, nlVars, srvVars, cliVars>>

HostNext ==
  \/ HostInitialize
  \/ HostClose
  \/ StartTurn
  \/ LlmThrows
  \/ LlmReply
  \/ ToolSettle
  \/ HostReturn

HostSpec == Init /\ [][HostNext]_vars

\* ----------------------------------------------------- Ruby client actions
\* What send_request makes of the line gets returned: nil raises 'No
\* response from server', a line that is not JSON raises 'Invalid JSON
\* response', an error Response raises 'Server error', a result is returned.
send_request(line) == IF line = "result" THEN "ok" ELSE "raise"

\* The line @stdout.gets returns: the oldest line of the pipe, nil at EOF.
gets == IF rbPipe # <<>> THEN Head(rbPipe) ELSE "nil"

\* Client#connect_to_server: initialize_connection writes the initialize
\* Request and blocks in gets.
RbConnect ==
  /\ rbPc = "new"
  /\ rbSent' = <<"initialize">>
  /\ rbPc' = "awaitInitialize"
  /\ UNCHANGED <<rbPipe, rbEof>>
  /\ UNCHANGED <<regCall, connKind, oldLoop, tsVars, nlVars, srvVars, cliVars, hostVars>>

\* The server process writes a line to its stdout.
RbServerWrites ==
  /\ ~rbEof
  /\ Len(rbPipe) < MaxPipe
  /\ \E line \in {"result", "error", "garbage"} : rbPipe' = Append(rbPipe, line)
  /\ UNCHANGED <<rbPc, rbSent, rbEof>>
  /\ UNCHANGED <<regCall, connKind, oldLoop, tsVars, nlVars, srvVars, cliVars, hostVars>>

\* The server process exits: its stdout reaches EOF.
RbServerExits ==
  /\ ~rbEof
  /\ rbEof' = TRUE
  /\ UNCHANGED <<rbPc, rbSent, rbPipe>>
  /\ UNCHANGED <<regCall, connKind, oldLoop, tsVars, nlVars, srvVars, cliVars, hostVars>>

\* gets returns inside send_request.  After the initialize Response
\* initialize_connection passes the initialized notification to send_request
\* as well, which writes it and blocks in gets again.
RbGets ==
  /\ rbPc \in {"awaitInitialize", "awaitNotification"}
  /\ rbPipe # <<>> \/ rbEof
  /\ rbPipe' = IF rbPipe # <<>> THEN Tail(rbPipe) ELSE rbPipe
  /\ IF send_request(gets) = "raise"
       THEN rbPc' = "failed" /\ UNCHANGED rbSent
     ELSE IF rbPc = "awaitInitialize"
       THEN /\ rbSent' = Append(rbSent, "notifications/initialized")
            /\ rbPc' = "awaitNotification"
     ELSE rbPc' = "connected" /\ UNCHANGED rbSent
  /\ UNCHANGED rbEof
  /\ UNCHANGED <<regCall, connKind, oldLoop, tsVars, nlVars, srvVars, cliVars, hostVars>>

\* Client.new: Connection#initialize spawns a new server process.
RbNew ==
  /\ rbPc \in {"failed", "connected"}
  /\ rbPc' = "new"
  /\ rbSent' = <<>>
  /\ rbPipe' = <<>>
  /\ rbEof' = FALSE
  /\ UNCHANGED <<regCall, connKind, oldLoop, tsVars, nlVars, srvVars, cliVars, hostVars>>

RubyNext ==
  \/ RbConnect
  \/ RbServerWrites
  \/ RbServerExits
  \/ RbGets
  \/ RbNew

RubySpec == Init /\ [][RubyNext]_vars

\* ------------------------------------------------------- registry actions
\* The calls of the tool registry of MCPServer made directly by the
\* embedding program, each recorded in regCall with what it returned or
\* threw.
RegNames == ToolNames \cup {"nonexistent"}
RegArgs == {NoArgs, <<6>>, <<-5>>}

\* this.tools.has(name)
has(name) == name \in ToolNames /\ tools[name] # 0

\* The Error registerTool throws, "" when it throws none; the mutant takes
\* no notice of override.
registerErrorStrict(name, override) ==
  IF has(name) THEN "already registered" ELSE ""

registerError(name, override) ==
  IF has(name) /\ ~override THEN "already registered" ELSE ""

\* The Error unregisterTool throws, "" when it throws none.
unregisterError(name) == IF ~has(name) THEN "not registered" ELSE ""

RegistryRegister ==
  /\ \E name \in ToolNames, def \in 1..MaxRegDef, override \in BOOLEAN :
       /\ regCall' = RegCall("register", name, def, override, NoArgs,
                             registerError(name, override), 0, "", {})
       /\ IF registerError(name, override) # ""
            THEN UNCHANGED tools
            ELSE registerTool(name, def, override)
  /\ UNCHANGED <<running, initialized, connOpen, queue, srvPc, cur, curReady,
                 wrote, lastOut, execd, execDef, stopTimers, handshake>>
  /\ UNCHANGED <<connKind, oldLoop, tsVars, nlVars, cliVars, hostVars, rbVars>>

RegistryUnregister ==
  /\ \E name \in RegNames :
       /\ regCall' = RegCall("unregister", name, 0, FALSE, NoArgs,
                             unregisterError(name), 0, "", {})
       /\ IF unregisterError(name) # ""
            THEN UNCHANGED tools
            ELSE unregisterTool(name)
  /\ UNCHANGED <<running, initialized, connOpen, queue, srvPc, cur, curReady,
                 wrote, lastOut, execd, execDef, stopTimers, handshake>>
  /\ UNCHANGED <<connKind, oldLoop, tsVars, nlVars, cliVars, hostVars, rbVars>>

RegistryList ==
  /\ regCall' = RegCall("list", NoName, 0, FALSE, NoArgs, "", 0, "", listTools)
  /\ UNCHANGED <<srvVars, connKind, oldLoop, tsVars, nlVars, cliVars, hostVars, rbVars>>

\* callTool(name, inputs), to the end: the lookup, validateInput, the
\* handler and the catch.
RegistryInvoke ==
  /\ \E name \in RegNames, args \in RegArgs, raised \in HandlerOutcomes :
       IF callToolStart(name, args) # "run"
         THEN /\ raised = ""
              /\ regCall' = RegCall("invoke", name, 0, FALSE, args,
                                    callToolStart(name, args), 0, "", {})
         ELSE regCall' = RegCall("invoke", name, 0, FALSE, args,
                                 IF raised = "" THEN "" ELSE callToolCatch(raised),
                                 tools[name], raised, {})
  /\ UNCHANGED <<srvVars, connKind, oldLoop, tsVars, nlVars, cliVars, hostVars, rbVars>>

RegistryNext ==
  \/ RegistryRegister
  \/ RegistryUnregister
  \/ RegistryList
  \/ RegistryInvoke

RegistrySpec == Init /\ [][RegistryNext]_vars

\* ------------------------------------------------------------ CLI actions
\* NaturalLanguageCLI: the ts CLI sends its history to the backend itself;
\* the wip CLI is taken with a host, through which it runs the turn.
viaHost == connKind = "wip"

\* The message the constructor pushes.
systemMessage == ChatMessage("system", "prompt")

IsSystem(msg) == msg.role = "system"

clearHistoryKeepSystem(h) == SelectSeq(h, IsSystem)

\* clearHistory: the first system message of the history, or nothing.
clearHistory(h) ==
  IF \E i \in DOMAIN h : IsSystem(h[i])
    THEN <<h[CHOOSE i \in DOMAIN h :
               IsSystem(h[i]) /\ \A j \in 1..(i - 1) : ~IsSystem(h[j])]>>
    ELSE <<>>

\* processInput: the clear command clears the history; help (and, without
\* effect on the history, exit, tools and the empty line) returns at once;
\* any other input is pushed as a user message and the turn starts.
ProcessInput ==
  /\ nlPc = "idle"
  /\ \E input \in {"clear", "help", "text"} :
       /\ nlLast' = IF input = "clear" THEN "clearHistory" ELSE input
       /\ IF input = "clear"
            THEN history' = clearHistory(history) /\ UNCHANGED nlPc
          ELSE IF input = "help"
            THEN UNCHANGED <<history, nlPc>>
          ELSE /\ Len(history) + 4 <= MaxCliHistory
               /\ history' = Append(history, ChatMessage("user", "input"))
               /\ nlPc' = IF viaHost THEN "host" ELSE "llm"
  /\ UNCHANGED <<regCall, rbVars, connKind, oldLoop, tsVars, srvVars, cliVars, hostVars>>

\* clearHistory() called by the embedding program, at any time.
ClearHistory ==
  /\ history' = clearHistory(history)
  /\ nlLast' = "clearHistory"
  /\ UNCHANGED nlPc
  /\ UNCHANGED <<regCall, rbVars, connKind, oldLoop, tsVars, srvVars, cliVars, hostVars>>

\* The awaited call of the turn settles.
\*   llm:   sendMessage of the CLI without a host; its reply is pushed.
\*   host:  host.chat; a reply that isJsonResponse goes to
\*          processToolResponse, any other is pushed.
\*   tools: the host.chat calls of processToolResponse have all settled;
\*          the tool result message is pushed and sendMessage called.
\*   final: that sendMessage; its reply is pushed, its error makes
\*          processInput push the error context and call sendMessage again.
\*   retry: that sendMessage; its reply is pushed.
\* An error of the llm, host or retry call ends the turn in the outer catch.
Settled ==
  /\ nlPc # "idle"
  /\ nlLast' = "settled"
  /\ \E ok \in BOOLEAN, json \in BOOLEAN :
       IF nlPc = "tools"
         THEN /\ ok /\ json
              /\ history' = Append(history, ChatMessage("system", "toolResult"))
              /\ nlPc' = "final"
       ELSE IF ~ok
         THEN /\ ~json
              /\ IF nlPc = "final"
                   THEN /\ history' =
                             Append(history, ChatMessage("system", "errorContext"))
                        /\ nlPc' = "retry"
                   ELSE /\ nlPc' = "idle"
                        /\ UNCHANGED history
       ELSE IF nlPc = "host" /\ json
         THEN nlPc' = "tools" /\ UNCHANGED history
       ELSE /\ ~json
            /\ history' = Append(history, ChatMessage("assistant", "response"))
            /\ nlPc' = "idle"
  /\ UNCHANGED <<regCall, rbVars, connKind, oldLoop, tsVars, srvVars, cliVars, hostVars>>

CliNext ==
  \/ ProcessInput
  \/ ClearHistory
  \/ Settled

CliSpec == Init /\ [][CliNext]_vars

\* ----------------------------------------------------- server properties
IsRequest(line) ==
  line # NoLine /\ parseJsonRpcRequest(line) = "" /\ line.id # NoId

IsWellFormedNotification(line) ==
  line # NoLine /\ parseJsonRpcRequest(line) = "" /\ line.id = NoId

\* This step is one in which the receive loop takes a line: from the pending
\* receive() (a line event) or from the queue.
ReadsLine ==
  \/ srvPc = "waiting" /\ srvPc' \in {"loop", "exec"}
  \/ srvPc = "loop" /\ queue' # queue

\* C1: while the server is not Ready, a Request whose method is neither
\* initialize nor ping is answered with the MethodNotFound 'not allowed
\* before initialization' error carrying its id, no tool handler is invoked
\* and initialized stays false.
C1_LifecycleGating ==
  (IsRequest(cur) /\ ~curReady /\ cur.method \notin {"initialize", "ping"})
    => /\ lastOut = createErrorResponse(cur.id, MethodNotFound,
                                        "not allowed before initialization", NoData)
       /\ wrote = 1
       /\ ~execd
       /\ ~initialized

C1_Witness ==
  /\ IsRequest(cur) /\ ~curReady
  /\ cur.method = "tools/call" /\ cur.name = "dice" /\ tools["dice"] # 0
  /\ lastOut.code = MethodNotFound /\ wrote = 1

\* C2: the server dispatches tools/list or tools/call only when an
\* initialize Request was received earlier and the initialized notification
\* after it.
C2_HandshakeBeforeDispatch ==
  (IsRequest(cur) /\ cur.method \in {"tools/list", "tools/call"} /\ curReady)
    => handshake = "initialized"

\* C4: every Request the loop has read and finished handling produced
\* exactly one Response line, carrying the id of the Request, before the
\* loop went on.
C4_OneResponsePerRequest ==
  (IsRequest(cur) /\ srvPc # "exec")
    => (wrote = 1 /\ lastOut.id = cur.id)

\* C5: a well-formed message without an id never makes the server write a
\* line, whatever its method and whatever the lifecycle state.
C5_NotificationsSilent ==
  IsWellFormedNotification(cur) => (wrote = 0 /\ lastOut = NoResp /\ ~execd)

C5_Witness ==
  /\ IsWellFormedNotification(cur) /\ curReady
  /\ cur.method = "tools/call" /\ cur.name = "dice" /\ tools["dice"] # 0
  /\ srvPc = "waiting"

\* C9: a tools/call Request naming a tool that is not registered is answered
\* with the ToolNotFound error and leaves the server Ready and running; the
\* tools/list or valid tools/call Request read right after that answer is
\* served.
C9_UnknownToolStep ==
  (/\ ReadsLine /\ IsRequest(cur') /\ initialized
   /\ cur'.method = "tools/call" /\ cur'.name # NoName
   /\ (cur'.name \notin ToolNames \/ tools[cur'.name] = 0))
    => /\ lastOut' = createErrorResponse(cur'.id, ToolNotFound, "Tool not found", NoData)
       /\ wrote' = 1
       /\ ~execd'
       /\ initialized' /\ running' = running /\ connOpen' = connOpen
       /\ tools' = tools
       /\ srvPc' = "loop"

C9_ServedAfterwards ==
  (/\ ReadsLine /\ IsRequest(cur')
   /\ IsRequest(cur) /\ lastOut.code = ToolNotFound /\ wrote = 1)
    => /\ initialized
       /\ cur'.method = "tools/list"
            => lastOut' = createSuccessResponse(cur'.id, "tools", listTools, 0)
       /\ (/\ cur'.method = "tools/call" /\ cur'.name \in ToolNames
           /\ tools[cur'.name] # 0 /\ validateInput(cur'.name, cur'.args))
            => (execd' /\ execDef' = tools[cur'.name] /\ srvPc' = "exec")

C9_UnknownTool == [][C9_UnknownToolStep /\ C9_ServedAfterwards]_vars

C9_Witness ==
  /\ IsRequest(cur) /\ cur.method = "tools/call" /\ cur.name = "nonexistent"
  /\ lastOut.code = ToolNotFound /\ wrote = 1
  /\ initialized /\ running /\ connOpen /\ srvPc = "waiting"

\* C10: a line that does not parse as a Request or Notification produces one
\* ParseError Response with a null id, changes neither initialized nor the
\* registry, invokes no tool, and the loop goes on to the next line.
C10_ParseErrorStep ==
  (ReadsLine /\ parseJsonRpcRequest(cur') # "")
    => /\ lastOut' = createErrorResponse(NoId, ParseError,
                                         parseJsonRpcRequest(cur'), NoData)
       /\ wrote' = 1
       /\ ~execd'
       /\ initialized' = initialized
       /\ tools' = tools
       /\ running' = running
       /\ srvPc' = "loop"

C3_Correlation ==
  \A c \in Callers :
    (call[c].st \in {"ok", "failed"} /\ call[c].got.kind \in {"result", "error"})
      => call[c].got.id = call[c].id

\* C6: closing the Channel fails every outstanding call: once the Channel is
\* closed no call of the Protocol Client is still suspended in receive().
C6_CloseFailsOutstanding ==
  ~cOpen => \A c \in Callers : call[c].st # "waiting"

\* ------------------------------------------------------- host properties
\* C7: bounded loop.  toolCallCount never passes maxToolCalls, the turn of
\* chatWithRequest runs no batch and asks the backend nothing once 10 rounds
\* are counted, and a turn in which every reply of the backend requested
\* tool calls ends after exactly 10 rounds (11 replies) and returns the
\* reply produced last.
C7_BoundedLoop ==
  hMode = "chatWithRequest" =>
    /\ toolCallCount <= maxToolCalls
    /\ (toolCallCount = maxToolCalls => hostPc \in {"done", "idle"})
    /\ (hostPc = "done" /\ everyReplyCalls) =>
         /\ toolCallCount = maxToolCalls
         /\ llmCalls = maxToolCalls + 1
         /\ returned = llmCalls
         /\ llmResponse # NoToolCalls

C7_Witness ==
  /\ hMode = "chatWithRequest" /\ hostPc = "done" /\ everyReplyCalls
  /\ toolCallCount = maxToolCalls /\ returned = maxToolCalls + 1

\* C8: a failing tool call does not abort its batch.  A step in which a tool
\* call of the batch settles, with a result or with an error, leaves the
\* turn either in the batch or asking the backend for the next reply; the
\* backend is asked only when every call of the batch has been invoked and
\* has its result or error; and the turn ends by returning the reply the
\* backend gave last.
C8_Step ==
  /\ hostPc = "tools" => hostPc' \in {"tools", "llm"}
  /\ (hostPc = "tools" /\ hostPc' = "llm") =>
       /\ DOMAIN toolResults' = DOMAIN llmResponse
       /\ \A i \in DOMAIN toolResults' : toolResults'[i] \in Outcomes
  /\ (hostPc = "tools" /\ hostPc' = "tools") =>
       \E i \in DOMAIN toolResults' : toolResults'[i] \notin Outcomes
  /\ (hostPc = "llm" /\ hostPc' = "done") => returned' = llmCalls'

C8_ToolFailureCaptured == [][C8_Step]_vars

C8_Witness ==
  /\ hostPc = "done" /\ returned = llmCalls /\ llmCalls > 1
  /\ \E i, j \in DOMAIN toolResults :
       i < j /\ toolResults[i] = "error" /\ toolResults[j] = "ok"

\* C11: a malformed notification is dropped.  A line that parses to an
\* object without an id and that parseJsonRpcRequest rejects (a wrong
\* version tag, a missing method) gets no reply written to the Channel.
C11_MalformedNotificationDropped ==
  (cur.text = "object" /\ cur.id = NoId /\ parseJsonRpcRequest(cur) # "")
    => wrote = 0

\* C12: a failed read ends the loop and stops the server.  A step in which
\* the pending receive() of the loop ends because the Channel failed under
\* it leaves the loop terminated and the server stopped (running false).
C12_ReadFailureStep ==
  (srvPc = "waiting" /\ connOpen /\ ~connOpen')
    => (srvPc' = "exited" /\ ~running')

C12_ReadFailureStops == [][C12_ReadFailureStep]_vars

\* C13: the initialized notification is fire-and-forget.  Once the client
\* has written the initialized notification after the initialize Response,
\* initialize does not wait for a reply to it.
C13_InitializeSequence ==
  (Len(rbSent) = 2 /\ rbSent[2] = "notifications/initialized")
    => rbPc # "awaitNotification"

\* C14: close() always closes the Channel.  A step in which a call of
\* close() returns to its caller leaves the Channel closed, whatever became
\* of the shutdown call.
C14_CloseStep ==
  \A c \in Callers :
    (call[c].st # "ok" /\ call'[c].st = "ok" /\ call'[c].op = "close")
      => ~cOpen'

C14_CloseClosesChannel == [][C14_CloseStep]_vars

\* C15: an error Response surfaces with its code and its data.  A call that
\* failed on an error Response failed with an error that carries the code
\* of that Response and, when the Response has data, that data; a call
\* that returned on a Response returned on one with a result.
C15_ErrorSurfaces ==
  \A c \in Callers :
    /\ (call[c].st = "failed" /\ call[c].got.kind = "error")
         => /\ serverError(call[c].got).code = call[c].got.code
            /\ serverError(call[c].got).data = call[c].got.data
    /\ (call[c].st = "ok" /\ call[c].op \in {"listTools", "callTool"})
         => call[c].got.kind = "result"

\* C16: shutdown is answered before the Channel is closed.  Whenever the
\* line the loop read last is a shutdown Request of the Ready server, its
\* success Response has been written, and it was written while the Channel
\* was open: in the step that schedules the stop the Channel is still open
\* and the Response is on it.
C16_ShutdownStep ==
  /\ (IsRequest(cur') /\ cur'.method = "shutdown" /\ curReady')
       => /\ wrote' = 1
          /\ lastOut' = createSuccessResponse(cur'.id, "success", {}, 0)
  /\ stopTimers' > stopTimers
       => /\ connOpen'
          /\ cur'.method = "shutdown"
          /\ wrote' = 1
          /\ lastOut' = createSuccessResponse(cur'.id, "success", {}, 0)

C16_ShutdownAnsweredFirst == [][C16_ShutdownStep]_vars

C16_Witness ==
  /\ IsRequest(cur) /\ cur.method = "shutdown" /\ curReady
  /\ stopTimers = 0 /\ ~connOpen /\ ~running
  /\ wrote = 1 /\ lastOut.kind = "result"

\* --------------------------------------------------- registry properties
\* C17: register with and without override.  registerTool on a name that is
\* registered throws the already-registered Error when override is false
\* and leaves the registry as it is; otherwise it stores the definition
\* under the name, replacing the one that was there; and a callTool that
\* runs a handler runs the one of the definition registered last.
C17_Step ==
  /\ regCall'.op = "register" =>
       IF tools[regCall'.name] # 0 /\ ~regCall'.override
         THEN regCall'.error = "already registered" /\ tools' = tools
         ELSE /\ regCall'.error = ""
              /\ tools' = [tools EXCEPT ![regCall'.name] = regCall'.def]
  /\ (regCall'.op = "invoke" /\ regCall'.ran # 0) =>
       regCall'.ran = tools[regCall'.name]

C17_RegisterOverride == [][C17_Step]_vars

C17_Witness ==
  /\ regCall.op = "register" /\ ~regCall.override
  /\ regCall.error = "already registered"
  /\ tools[regCall.name] # 0 /\ tools[regCall.name] # regCall.def

\* C18: unregister.  unregisterTool on a name that is not registered throws
\* the not-registered Error and leaves the registry as it is; otherwise it
\* removes that name and no other; callTool on a name that is not
\* registered throws not-found without running anything, and listTools
\* returns the names that are registered and no other.
C18_Step ==
  /\ regCall'.op = "unregister" =>
       IF regCall'.name \notin ToolNames \/ tools[regCall'.name] = 0
         THEN regCall'.error = "not registered" /\ tools' = tools
         ELSE /\ regCall'.error = ""
              /\ tools' = [tools EXCEPT ![regCall'.name] = 0]
  /\ (regCall'.op = "invoke" /\ ~has(regCall'.name)) =>
       regCall'.error = "not found" /\ regCall'.ran = 0
  /\ regCall'.op = "list" =>
       regCall'.list = {n \in ToolNames : tools[n] # 0}

C18_Unregister == [][C18_Step]_vars

C18_Witness ==
  /\ regCall.op = "unregister" /\ regCall.name = "dice"
  /\ regCall.error = "" /\ tools["dice"] = 0
  /\ tools["current_time"] # 0

\* C19: lookup, then validation, then execution.  A callTool that ran a
\* handler ran it for a registered name and for arguments that pass the
\* input schema of the tool; for an unknown name it throws not-found and for
\* arguments that fail the schema the validation error, running nothing.
C19_Step ==
  regCall'.op = "invoke" =>
    /\ regCall'.ran # 0 =>
         /\ has(regCall'.name)
         /\ validateInput(regCall'.name, regCall'.args)
    /\ ~has(regCall'.name) =>
         regCall'.ran = 0 /\ regCall'.error = "not found"
    /\ (has(regCall'.name) /\ ~validateInput(regCall'.name, regCall'.args)) =>
         regCall'.ran = 0 /\ regCall'.error = "ToolInputValidationError"

C19_InvokeOrder == [][C19_Step]_vars

C19_Witness ==
  /\ regCall.op = "invoke" /\ regCall.name = "dice" /\ regCall.args = <<-5>>
  /\ tools["dice"] # 0
  /\ regCall.ran = 0 /\ regCall.error = "ToolInputValidationError"

\* C20: a failing tool is re-signaled as ToolExecutionError.  Whenever the
\* handler a callTool ran raised an exception, callTool threw a
\* ToolExecutionError.
C20_ExecutionErrorWraps ==
  (regCall.op = "invoke" /\ regCall.ran # 0 /\ regCall.raised # "")
    => regCall.error = "ToolExecutionError"

\* C21: validation of the dice arguments.  A tools/call Request of the
\* Ready server for the registered dice tool with sides -5 fails validation
\* with a non-empty violation list: it is answered with the InvalidToolInput
\* error and the handler is not invoked; with no arguments it passes
\* validation, the handler is invoked, and the success Response made of what
\* the handler returns reports the default of six sides.
C21_Step ==
  /\ (/\ ReadsLine /\ IsRequest(cur') /\ initialized
      /\ cur'.method = "tools/call" /\ cur'.name = "dice" /\ tools["dice"] # 0)
       => /\ cur'.args = <<-5>> =>
               /\ validationErrors("dice", cur'.args) # {}
               /\ ~execd' /\ wrote' = 1
               /\ lastOut'.id = cur'.id /\ lastOut'.kind = "error"
               /\ lastOut'.code = InvalidToolInput
          /\ cur'.args = NoArgs =>
               (execd' /\ srvPc' = "exec" /\ wrote' = 0)
  /\ (/\ srvPc = "exec" /\ wrote' = 1 /\ cur.name = "dice" /\ cur.args = NoArgs
      /\ lastOut'.kind = "result")
       => (lastOut'.id = cur.id /\ lastOut'.sides = 6)

C21_ValidationCompleteness == [][C21_Step]_vars

C21_Witness ==
  /\ IsRequest(cur) /\ curReady /\ cur.method = "tools/call"
  /\ cur.name = "dice" /\ cur.args = <<-5>> /\ tools["dice"] # 0
  /\ ~execd /\ wrote = 1 /\ lastOut.code = InvalidToolInput

\* C22: tool-domain faults carry data.  Every error Response the server has
\* written with the code ToolNotFound, ToolExecutionError or
\* InvalidToolInput has an error.data member.
C22_ToolFaultData ==
  (/\ wrote >= 1 /\ lastOut.kind = "error"
   /\ lastOut.code \in {ToolNotFound, ToolExecutionError, InvalidToolInput})
    => lastOut.data # NoData

\* C23: one code per failure kind of tools/call.  A Request of the Ready
\* server naming an unknown tool is answered with ToolNotFound, one whose
\* arguments fail the input schema with InvalidToolInput, and one whose
\* handler was invoked and raised an exception with ToolExecutionError; the
\* three codes differ from each other.
C23_Step ==
  /\ (/\ ReadsLine /\ IsRequest(cur') /\ initialized
      /\ cur'.method = "tools/call" /\ cur'.name # NoName)
       => /\ ~has(cur'.name) =>
               (lastOut'.kind = "error" /\ lastOut'.code = ToolNotFound)
          /\ (has(cur'.name) /\ ~validateInput(cur'.name, cur'.args)) =>
               (lastOut'.kind = "error" /\ lastOut'.code = InvalidToolInput)
  /\ (srvPc = "exec" /\ wrote' = 1 /\ lastOut'.kind = "error")
       => lastOut'.code = ToolExecutionError
  /\ Cardinality({ToolNotFound, ToolExecutionError, InvalidToolInput}) = 3

C23_DistinctCodes == [][C23_Step]_vars

\* C24: a failure of the backend aborts the turn.  Once a call of the
\* backend has thrown in a turn, the turn has failed with that error and
\* stays so until its caller takes the error: no further reply of the
\* backend is taken, no tool call is started or settled, and no tool call of
\* the turn is pending.
C24_Step ==
  /\ (hostPc = "llm" /\ llmFailed' /\ ~llmFailed) => hostPc' = "failed"
  /\ llmFailed =>
       /\ hostPc \in {"failed", "idle"}
       /\ \A i \in DOMAIN toolResults : toolResults[i] \in Outcomes
       /\ llmFailed' =>
            /\ llmCalls' = llmCalls
            /\ toolResults' = toolResults
            /\ hostPc' \in {"failed", "idle"}

C24_BackendFailureAborts == [][C24_Step]_vars

C24_Witness ==
  /\ hMode = "chat" /\ hostPc = "failed" /\ llmFailed
  /\ llmCalls = 1 /\ Len(toolResults) = 2

\* C25: after the tool round the backend gives the final text.  When the
\* last tool call of the batch of a chat turn settles, the turn appends the
\* tool result message, the only one of the turn, with one entry per
\* requested call, and calls the backend with the history so extended and
\* with no tools; the reply to that call starts no tool call and is the one
\* the turn appends and returns.
C25_Step ==
  /\ (hMode = "chat" /\ hostPc = "tools" /\ hostPc' = "llm")
       => /\ Len(turnHistory') = Len(turnHistory) + 2
          /\ turnHistory'[Len(turnHistory')].role = "system"
          /\ turnHistory'[Len(turnHistory')].entries = Len(llmResponse)
          /\ Cardinality({i \in DOMAIN turnHistory' :
                            turnHistory'[i].role = "system"}) = 1
          /\ llmSent' = turnHistory'
          /\ offered' = {}
  /\ (hMode = "chat" /\ hostPc = "llm" /\ llmCalls = 1 /\ llmCalls' = 2)
       => /\ hostPc' = "done"
          /\ returned' = 2
          /\ toolResults' = toolResults
          /\ turnHistory' = Append(turnHistory, Message("assistant", 2, 0))

C25_FinalTextAfterTools == [][C25_Step]_vars

C25_Witness ==
  /\ hMode = "chat" /\ hostPc = "done" /\ returned = 2
  /\ replyShape = "calls"
  /\ Len(turnHistory) = 4 /\ turnHistory[3].entries = 2
  /\ toolResults = <<"error", "ok">>

\* C26: only a non-empty list of {name, arguments} entries is a tool-call
\* request.  The first reply of a chat turn starts tool calls exactly when
\* it is an object whose function_calls is such a list; any other reply is
\* returned as the final text of the turn, no tool call is started and the
\* turn does not fail.
C26_Step ==
  (hMode = "chat" /\ hostPc = "llm" /\ llmCalls = 0 /\ llmCalls' = 1)
    => IF replyShape' = "calls"
         THEN hostPc' = "tools" /\ Len(toolResults') > 0
         ELSE hostPc' = "done" /\ returned' = 1 /\ toolResults' = <<>>

C26_OnlyCallListsAreCalls == [][C26_Step]_vars

\* ------------------------------------------------------- CLI properties
\* C27: only clear shortens the history, and it leaves the leading system
\* message.  A step that makes the history of the CLI shorter is a step of
\* clearHistory; after a step of clearHistory the history is exactly the
\* system message that led it; and any other step leaves the messages that
\* were there in place.
C27_Step ==
  /\ Len(history') < Len(history) => nlLast' = "clearHistory"
  /\ nlLast' = "clearHistory" =>
       /\ history' = <<history[1]>>
       /\ history'[1] = systemMessage
  /\ nlLast' # "clearHistory" =>
       /\ Len(history') >= Len(history)
       /\ SubSeq(history', 1, Len(history)) = history

C27_ClearOnly == [][C27_Step]_vars

C27_Witness ==
  /\ nlLast = "clearHistory" /\ history = <<systemMessage>>
  /\ nlPc = "final"

\* C28: tools/list is issued once per session.  Between two calls of close()
\* the host issues at most one tools/list Request, and exactly one once it
\* is ready, whatever the number of initialize() calls and turns.
C28_ListOnce ==
  /\ listCalls <= 1
  /\ ready => listCalls = 1

\* C29: after the handshake the tool methods are served.  The receive loop
\* has received initialize and then the initialized notification; it reads a
\* tools/list Request, or a tools/call Request naming a registered tool with
\* arguments that pass its schema.
ServedRequest(line) ==
  /\ IsRequest(line)
  /\ \/ line.method = "tools/list"
     \/ /\ line.method = "tools/call" /\ has(line.name)
        /\ validateInput(line.name, line.args)

\* C29 as stated: every such Request is answered with a success Response
\* (a Response that an open Channel takes).
C29_OriginalStep ==
  /\ (ReadsLine /\ handshake = "initialized" /\ ServedRequest(cur'))
       => IF cur'.method = "tools/list"
            THEN /\ wrote' = 1
                 /\ lastOut' = createSuccessResponse(cur'.id, "tools", listTools, 0)
            ELSE execd' /\ srvPc' = "exec"
  /\ (srvPc = "exec" /\ handshake = "initialized" /\ connOpen
        /\ srvPc' # "exec")
       => /\ wrote' = 1
          /\ lastOut'.id = cur.id /\ lastOut'.kind = "result"

C29_AlwaysSuccess == [][C29_OriginalStep]_vars

\* C29 amended: every such Request is dispatched; tools/list is answered
\* with a success Response listing the registry, tools/call invokes the
\* handler of the tool and is answered with the success Response when the
\* handler returns and with a tool error Response when it raises.
C29_Step ==
  /\ (ReadsLine /\ handshake = "initialized" /\ ServedRequest(cur'))
       => IF cur'.method = "tools/list"
            THEN /\ wrote' = 1
                 /\ lastOut' = createSuccessResponse(cur'.id, "tools", listTools, 0)
            ELSE execd' /\ execDef' = tools[cur'.name] /\ srvPc' = "exec"
  /\ (srvPc = "exec" /\ handshake = "initialized" /\ connOpen
        /\ srvPc' # "exec")
       => /\ wrote' = 1
          /\ lastOut'.id = cur.id
          /\ \/ lastOut' = toolResponse(cur, execDef, "")
             \/ /\ lastOut'.kind = "error"
                /\ lastOut'.code \in {ToolExecutionError, InvalidToolInput}

C29_ServedAfterHandshake == [][C29_Step]_vars

C29_Witness ==
  /\ handshake = "initialized" /\ curReady /\ IsRequest(cur)
  /\ cur.method = "tools/call" /\ cur.name = "dice" /\ cur.args = <<6>>
  /\ execd /\ wrote = 1 /\ lastOut.kind = "result" /\ lastOut.sides = 6

\* C30: initialize and ping change no server state.  A step in which the
\* receive loop takes an initialize or a ping Request, whether or not the
\* server is Ready and however many initialize Requests came before, keeps
\* initialized, running, the tool registry and the pending stop timers,
\* invokes no handler, and answers with the same result every time: the
\* protocol version and server identity for initialize, the acknowledgement
\* for ping, under the id of the Request.
C30_Step ==
  (ReadsLine /\ IsRequest(cur') /\ cur'.method \in {"initialize", "ping"})
    => /\ initialized' = initialized
       /\ running' = running
       /\ tools' = tools
       /\ stopTimers' = stopTimers
       /\ ~execd' /\ srvPc' = "loop"
       /\ wrote' = 1
       /\ lastOut' = createSuccessResponse(cur'.id,
                       IF cur'.method = "initialize" THEN "serverInfo"
                       ELSE "pong", {}, 0)

C30_InitializeAndPingKeepState == [][C30_Step]_vars

\* A second initialize Request, received by a Ready server, was answered
\* like the first.
C30_Witness ==
  /\ handshake = "initialized" /\ initialized /\ curReady
  /\ IsRequest(cur) /\ cur.method = "initialize"
  /\ wrote = 1 /\ lastOut = handleInitialize(cur)

\* C31: the server never has two dispatches in progress at the same time.
\* While a receive loop of the server is suspended in the handler of a tool,
\* no other receive loop of the server has read a further line and is
\* suspended in a handler too.
C31_NoOverlappingDispatch ==
  ~(oldLoop = "exec" /\ srvPc = "exec" /\ execd)

\* C32: every Request one client instance sends carries an id different from
\* the id of every Request it sent before.
C32_FreshIds ==
  \A i, j \in 1..Len(tsSent) : i < j => tsSent[i] # tsSent[j]

\* C33: during chat() the conversation history only grows.  Every step of a
\* turn of chat keeps the entries the history has and appends to them; the
\* system prompt is its first entry; the user message is in it, right after
\* the prompt, from before the first backend call on and is part of what
\* every backend call is given; and when chat returns a reply, the last entry
\* is the assistant message holding the reply that is returned.
IsPrefix(h, g) ==
  Len(h) <= Len(g) /\ SubSeq(g, 1, Len(h)) = h

C33_Step ==
  (hMode = "chat" /\ hostPc \in {"llm", "tools"})
    => IsPrefix(conversationHistory, conversationHistory')

C33_HistoryShape ==
  (hMode = "chat" /\ hostPc # "idle")
    => /\ conversationHistory[1].role = "system"
       /\ Len(conversationHistory) >= 2
       /\ conversationHistory[2] = Message("user", 0, 0)
       /\ llmSent # <<>> /\ llmSent[1] = Message("user", 0, 0)
       /\ hostPc = "done"
            => /\ returned = llmCalls
               /\ conversationHistory[Len(conversationHistory)]
                    = Message("assistant", returned, 0)

C34_Step ==
  \A c \in Callers :
    (/\ call[c].st \in {"idle", "waiting"}
     /\ call'[c].st \in {"ok", "failed"}
     /\ call'[c].got # NoCLine /\ call'[c].got # ClosedLine)
      => /\ call'[c].got.kind \in {"result", "error"}
         /\ call'[c].got.id # NoId
         /\ call'[c].got.id = call'[c].id

C34_CompletesOnOwnResponse == [][C34_Step]_vars

\* C35: no waiter of the stdio Channel is lost.  While the Channel is open,
\* every call suspended in receive() is among the waiters the Channel will
\* hand a line to, each once, and no line stays buffered while a call is
\* suspended in receive().
Waiters == {cWait[i] : i \in DOMAIN cWait}

C35_NoWaiterLost ==
  cOpen =>
    /\ \A c \in Callers : call[c].st = "waiting" => c \in Waiters
    /\ \A i, j \in DOMAIN cWait : i # j => cWait[i] # cWait[j]
    /\ (\E c \in Callers : call[c].st = "waiting") => cBuf = <<>>

\* C36: after stop() the receive loop exits.  Once stop() has cleared
\* running, the loop is not left suspended in receive(): it has exited, or
\* it is at the head of the loop or in the handler of a tool, from where its
\* next step ends it.
C36_StoppedLoopExits ==
  ~running => srvPc \in {"created", "exited", "loop", "exec"}

\* C37: after the server has answered a shutdown Request it dispatches no
\* further Request.  While the stop that a shutdown Request scheduled is
\* pending, a step in which the loop takes a line invokes no tool handler
\* and leaves the registry as it is.
C37_Step ==
  (stopTimers > 0 /\ ReadsLine) => (~execd' /\ tools' = tools)

C37_NoDispatchAfterShutdown == [][C37_Step]_vars

\* C38: Stopped ends the handshake.  A step in which start() starts the
\* server again leaves it not Ready, so that it rejects tools/list and
\* tools/call until a new handshake has set initialized.
C38_Step ==
  (~running /\ running') => ~initialized'

C38_StoppedEndsHandshake == [][C38_Step]_vars

\* C39: the 'maximum tool call limit' warning is logged only when the bound
\* stopped the loop.  A turn of chatWithRequest that logs the warning ends
\* with a reply that still requests tool calls.
C39_WarningOnlyWhenBounded ==
  limitWarning => llmResponse # NoToolCalls

\* C40: chat() runs at most one tool-call round and calls the backend at
\* most twice per turn.  A turn of chat never has more than two replies and
\* runs its batch after the first only; the step that takes the second
\* reply, whatever that reply is, ends the turn, returns that reply, stores
\* it as the last entry of the history and starts no tool call.
C40_Step ==
  (hMode = "chat" /\ hostPc = "llm" /\ llmCalls = 1 /\ llmCalls' = 2)
    => /\ hostPc' = "done"
       /\ returned' = 2
       /\ toolResults' = toolResults
       /\ conversationHistory'
            = Append(conversationHistory, Message("assistant", 2, 0))

C40_Bounds ==
  hMode = "chat" =>
    /\ llmCalls <= 2
    /\ hostPc = "tools" => llmCalls = 1
    /\ hostPc = "llm" => llmCalls <= 1

C40_OneRoundTwoCalls == [][C40_Step]_vars /\ []C40_Bounds

\* The second reply of the turn was itself a tool-call payload.
C40_Witness ==
  /\ hMode = "chat" /\ hostPc = "done" /\ llmCalls = 2 /\ returned = 2
  /\ replyShape = "calls"
  /\ toolResults # <<>>
  /\ \A i \in DOMAIN toolResults : toolResults[i] \in Outcomes

====
